---- MODULE Spec2Model ----
(***************************************************************************)
(* Model of crates/git_ui/src/side_by_side_diff_view.rs: the side-by-side  *)
(* diff view, its construction (open / build_buffer_diff / new), the       *)
(* debounced diff recalculation task, and the focus-routed delegation of   *)
(* the workspace Item operations.                                          *)
(*                                                                         *)
(* A buffer is modelled by the version of its text (the number of edits    *)
(* applied to it); a snapshot is the version read; a diff snapshot is the  *)
(* pair of versions it was computed from.  Time is counted in milliseconds *)
(* and advances in steps of TickMs while the debounce timer runs.          *)
(***************************************************************************)
EXTENDS Integers, Naturals, FiniteSets, Sequences, TLC

\* ---------------------------------------------------------------- bounds
\* Total number of buffer events (of any kind, on either buffer) in a run.
MaxEvents == 3
\* Granularity of the clock: every Tick lets TickMs milliseconds pass.
TickMs == 125

\* ------------------------------------------------------ program constants
\* const RECALCULATE_DIFF_DEBOUNCE: Duration = Duration::from_millis(250)
RECALCULATE_DIFF_DEBOUNCE == 250

\* enum FocusedPane { Left, Right }
FocusedPane == {"Left", "Right"}

\* The kinds of language::BufferEvent the subscription distinguishes; "Other"
\* stands for every kind that falls in the `_ => {}` arm.
BufferEvent == {"Edited", "LanguageChanged", "Reparsed", "Other"}

\* The two buffers of the view.
Buffers == {"old_buffer", "new_buffer"}

\* The type ids a workspace asks act_as_type for: the view's own type, Editor,
\* and some other type.
TypeIds == {"SideBySideDiffView", "Editor", "ProjectSearchView"}

\* The outcome of a fallible gpui call (`Result`), as seen at each `?`.
Results == {"Ok", "Err"}

NoSnapshots == <<-1, -1>>
NoDiff == [base |-> -1, buffer |-> -1]
NoCall == [op |-> "none", arg |-> "none", target |-> "none"]

VARIABLES
    old_buffer,      \* text version of the old buffer
    new_buffer,      \* text version of the new buffer
    events,          \* number of buffer events emitted so far
    open_task,       \* the task spawned by open: "unspawned", "building", "ok", "err"
    buffer_diff,     \* snapshots read by build_buffer_diff while the initial diff is computed
    view,            \* the SideBySideDiffView entity: "none", "alive", "released"
    pane_items,      \* items added to the active pane of the workspace
    diff,            \* contents of the Entity<BufferDiff> shared by both editors
    buffer_changes,  \* the watch channel: TRUE iff a value is unseen by the receiver
    task,            \* _recalculate_diff_task: where it is suspended, or how it ended
    timer,           \* milliseconds left on the debounce timer
    snapshots,       \* <<old_snapshot, new_snapshot>> held by the task
    computing,       \* number of diff computations running for the task
    focused_pane,    \* the field focused_pane
    window_focus,    \* the editor that holds the window's focus
    last_call,       \* the last Item/Focusable call of the workspace and the part it reached
    sent,            \* number of recognized events notified on the channel (history)
    seen,            \* value of sent when the task last read its snapshots (history)
    recalcs,         \* number of recalculations the task started (history)
    raced,           \* buffer versions when the task last left select with both arms ready (history)
    since,           \* milliseconds passed since the running debounce timer was armed (history)
    armed_by,        \* the statement that armed the running debounce timer (history)
    ignored          \* number of events that fell in the `_ => {}` arm of the subscription (history)

loopvars == <<task, timer, snapshots, computing, seen, recalcs, raced>>
hostvars == <<focused_pane, window_focus, last_call>>
openvars == <<open_task, buffer_diff, view, pane_items>>
vars == <<old_buffer, new_buffer, events, open_task, buffer_diff, view, pane_items,
          diff, buffer_changes, task, timer, snapshots, computing, focused_pane,
          window_focus, last_call, sent, seen, recalcs, raced, since, armed_by,
          ignored>>

\* -------------------------------------------------------- pure operators

\* The two snapshots as they would be with an edit of the old buffer falling
\* between the two reads: the old snapshot misses that edit.
SnapshotPair_interleaved == <<IF old_buffer > 0 THEN old_buffer - 1 ELSE 0, new_buffer>>

\* buffer.snapshot() of both buffers, read in one synchronous closure.
SnapshotPair == <<old_buffer, new_buffer>>

\* BufferDiffSnapshot::new_with_base_buffer(new.text, Some(old.text()), old):
\* the diff of the new snapshot against the old snapshot as base.
new_with_base_buffer(new_snapshot, old_snapshot) ==
    [base |-> old_snapshot, buffer |-> new_snapshot]

\* The subscription's match as it would be with Edited as its only arm.
Recognized_edited_only(event) == event = "Edited"

\* The subscription's match: the event kinds that send on buffer_changes_tx.
Recognized(event) == event \in {"Edited", "LanguageChanged", "Reparsed"}

\* watch::Sender::send(()): the single slot now holds an unseen value.
Send(pending) == TRUE

\* A receive that would leave the value unseen.
Recv_keeps(pending) == pending

\* watch::Receiver::recv() resolving: the receiver has seen the value.
Recv(pending) == FALSE

\* The editor bound to a pane.
EditorOf(pane) == IF pane = "Left" THEN "left_editor" ELSE "right_editor"

Init ==
    /\ old_buffer = 0
    /\ new_buffer = 0
    /\ events = 0
    /\ open_task = "unspawned"
    /\ buffer_diff = NoSnapshots
    /\ view = "none"
    /\ pane_items = {}
    /\ diff = NoDiff
    /\ buffer_changes = FALSE
    /\ task = "unspawned"
    /\ timer = 0
    /\ snapshots = NoSnapshots
    /\ computing = 0
    /\ focused_pane = "Left"
    /\ window_focus = "none"
    /\ last_call = NoCall
    /\ sent = 0
    /\ seen = 0
    /\ recalcs = 0
    /\ raced = NoSnapshots
    /\ since = 0
    /\ armed_by = "none"
    /\ ignored = 0

\* ------------------------------------------------------------ the buffers

\* A buffer emits an event.  Edited comes with a new text version.  While the
\* view is alive its subscription runs in the same effect cycle and sends on
\* the channel for the recognized kinds.
EmitBufferEvent(buffer, event) ==
    /\ events < MaxEvents
    /\ events' = events + 1
    /\ old_buffer' = IF buffer = "old_buffer" /\ event = "Edited"
                     THEN old_buffer + 1 ELSE old_buffer
    /\ new_buffer' = IF buffer = "new_buffer" /\ event = "Edited"
                     THEN new_buffer + 1 ELSE new_buffer
    /\ IF view = "alive" /\ Recognized(event)
       THEN /\ buffer_changes' = Send(buffer_changes)
            /\ sent' = sent + 1
       ELSE UNCHANGED <<buffer_changes, sent>>
    /\ UNCHANGED <<openvars, diff, loopvars, hostvars>>
    /\ ignored' = IF view = "alive" /\ ~Recognized(event) THEN ignored + 1 ELSE ignored
    /\ UNCHANGED <<since, armed_by>>

\* ---------------------------------------------------------- construction

\* SideBySideDiffView::new: what the constructor sets up.  The watch channel
\* starts with its value seen, both buffers are subscribed to (the view being
\* alive), the pane starts Left, and the recalculation task is spawned and
\* waits in `buffer_changes_rx.recv().await`.
new ==
    /\ view' = "alive"
    /\ buffer_changes' = FALSE
    /\ focused_pane' = "Left"
    /\ task' = "Idle"
    /\ timer' = 0
    /\ snapshots' = NoSnapshots
    /\ computing' = 0

\* open, up to the first suspension: the project is fetched from the weak
\* workspace handle and build_buffer_diff reads both snapshots and starts the
\* initial diff computation.  Any `?` on the way ends open with the error.
open(r) ==
    /\ open_task = "unspawned"
    /\ IF r = "Ok"
       THEN /\ open_task' = "building"
            /\ buffer_diff' = SnapshotPair
       ELSE /\ open_task' = "err"
            /\ UNCHANGED buffer_diff
    /\ UNCHANGED <<old_buffer, new_buffer, events, view, pane_items, diff,
                   buffer_changes, loopvars, hostvars, sent>>
    /\ UNCHANGED <<since, armed_by, ignored>>

\* build_buffer_diff as it would be with the view built and added to the pane
\* before the fallible step: an error then leaves that view behind.
build_buffer_diff_view_first(r) ==
    /\ open_task = "building"
    /\ new
    /\ pane_items' = pane_items \cup {"diff_view"}
    /\ IF r = "Ok"
       THEN /\ diff' = new_with_base_buffer(buffer_diff[2], buffer_diff[1])
            /\ open_task' = "ok"
       ELSE /\ open_task' = "err"
            /\ UNCHANGED diff
    /\ UNCHANGED <<old_buffer, new_buffer, events, buffer_diff, window_focus,
                   last_call, sent, seen, recalcs, raced>>
    /\ UNCHANGED <<since, armed_by, ignored>>

\* open, once the initial diff is computed: build_buffer_diff creates the
\* BufferDiff entity, then workspace.update_in builds the view and adds it to
\* the active pane in one synchronous closure.  On an error nothing is built.
build_buffer_diff(r) ==
    /\ open_task = "building"
    /\ IF r = "Ok"
       THEN /\ diff' = new_with_base_buffer(buffer_diff[2], buffer_diff[1])
            /\ new
            /\ pane_items' = pane_items \cup {"diff_view"}
            /\ open_task' = "ok"
       ELSE /\ open_task' = "err"
            /\ UNCHANGED <<diff, view, buffer_changes, focused_pane, task, timer,
                           snapshots, computing, pane_items>>
    /\ UNCHANGED <<old_buffer, new_buffer, events, buffer_diff, window_focus,
                   last_call, sent, seen, recalcs, raced>>
    /\ UNCHANGED <<since, armed_by, ignored>>

\* The states in which _recalculate_diff_task is suspended and can resume.
Running == {"Idle", "Debouncing", "Recomputing", "Publishing"}

\* The release of the view as it would be with the task detached instead of
\* held in the field: the task and its computation go on.
DropViewDetached ==
    /\ view = "alive"
    /\ view' = "released"
    /\ pane_items' = pane_items \ {"diff_view"}
    /\ UNCHANGED <<old_buffer, new_buffer, events, open_task, buffer_diff, diff,
                   buffer_changes, task, computing, timer, snapshots, hostvars,
                   sent, seen, recalcs, raced>>
    /\ UNCHANGED <<since, armed_by, ignored>>

\* The view entity is released: its fields are dropped, and dropping
\* _recalculate_diff_task cancels the task together with the computation it
\* awaits.
DropView ==
    /\ view = "alive"
    /\ view' = "released"
    /\ pane_items' = pane_items \ {"diff_view"}
    /\ task' = IF task \in Running THEN "Cancelled" ELSE task
    /\ computing' = 0
    /\ UNCHANGED <<old_buffer, new_buffer, events, open_task, buffer_diff, diff,
                   buffer_changes, timer, snapshots, hostvars, sent, seen,
                   recalcs, raced>>
    /\ UNCHANGED <<since, armed_by, ignored>>

\* ------------------------------------------------ _recalculate_diff_task

\* `while buffer_changes_rx.recv().await.is_ok()` resolving from the wait:
\* the value is consumed and the inner loop arms the debounce timer.
recv ==
    /\ task = "Idle"
    /\ buffer_changes
    /\ buffer_changes' = Recv(buffer_changes)
    /\ timer' = RECALCULATE_DIFF_DEBOUNCE
    /\ task' = "Debouncing"
    /\ UNCHANGED <<old_buffer, new_buffer, events, openvars, diff, snapshots,
                   computing, hostvars, sent, seen, recalcs, raced>>
    /\ since' = 0
    /\ armed_by' = "recv"
    /\ UNCHANGED ignored

\* Time passes while the debounce timer runs.
Tick ==
    /\ task = "Debouncing"
    /\ timer > 0
    /\ timer' = IF timer > TickMs THEN timer - TickMs ELSE 0
    /\ UNCHANGED <<old_buffer, new_buffer, events, openvars, diff, buffer_changes,
                   task, snapshots, computing, hostvars, sent, seen, recalcs, raced>>
    /\ since' = since + (timer - timer')
    /\ UNCHANGED <<armed_by, ignored>>

\* select_biased! { _ = timer => break, _ = recv => continue }: the arms are
\* polled in the order written, so an elapsed timer wins over a ready recv.
select_biased ==
    IF timer = 0 THEN "timer"
    ELSE IF buffer_changes THEN "recv"
    ELSE "pending"

\* The recv arm as it would be with the timer created once, outside the inner
\* loop: continue polls the same timer again.
select_recv_keeps_timer ==
    /\ task = "Debouncing"
    /\ select_biased = "recv"
    /\ buffer_changes' = Recv(buffer_changes)
    /\ since' = 0
    /\ armed_by' = "select_biased"
    /\ UNCHANGED <<old_buffer, new_buffer, events, openvars, diff, task, timer,
                   snapshots, computing, hostvars, sent, seen, recalcs, raced,
                   ignored>>

\* The recv arm: continue, that is, a new timer and a new recv.
select_recv ==
    /\ task = "Debouncing"
    /\ select_biased = "recv"
    /\ buffer_changes' = Recv(buffer_changes)
    /\ timer' = RECALCULATE_DIFF_DEBOUNCE
    /\ UNCHANGED <<old_buffer, new_buffer, events, openvars, diff, task, snapshots,
                   computing, hostvars, sent, seen, recalcs, raced>>
    /\ since' = 0
    /\ armed_by' = "select_biased"
    /\ UNCHANGED ignored

\* The timer arm as it would be with the old text taken from the base of the
\* published diff instead of a fresh snapshot of the old buffer.
select_timer_stale_base(r) ==
    /\ task = "Debouncing"
    /\ select_biased = "timer"
    /\ (r = "Ok") => (view = "alive")
    /\ recalcs' = recalcs + 1
    /\ raced' = IF buffer_changes THEN <<old_buffer, new_buffer>> ELSE NoSnapshots
    /\ IF r = "Ok"
       THEN /\ snapshots' = <<diff.base, new_buffer>>
            /\ seen' = sent
            /\ computing' = computing + 1
            /\ task' = "Recomputing"
       ELSE /\ task' = "Failed"
            /\ UNCHANGED <<snapshots, seen, computing>>
    /\ UNCHANGED <<old_buffer, new_buffer, events, openvars, diff, buffer_changes,
                   timer, hostvars, sent>>
    /\ since' = 0
    /\ armed_by' = "none"
    /\ UNCHANGED ignored

\* The timer arm as it would be with the diff computation spawned and not
\* awaited: the task goes straight back to waiting for the next change.
select_timer_not_awaited(r) ==
    /\ task = "Debouncing"
    /\ select_biased = "timer"
    /\ (r = "Ok") => (view = "alive")
    /\ recalcs' = recalcs + 1
    /\ raced' = IF buffer_changes THEN <<old_buffer, new_buffer>> ELSE NoSnapshots
    /\ IF r = "Ok"
       THEN /\ snapshots' = SnapshotPair
            /\ seen' = sent
            /\ computing' = computing + 1
            /\ task' = "Idle"
       ELSE /\ task' = "Failed"
            /\ UNCHANGED <<snapshots, seen, computing>>
    /\ UNCHANGED <<old_buffer, new_buffer, events, openvars, diff, buffer_changes,
                   timer, hostvars, sent>>
    /\ since' = 0
    /\ armed_by' = "none"
    /\ UNCHANGED ignored

\* The timer arm: break, then the recalculation starts in the same poll: both
\* snapshots are read through the weak view handle and the diff computation
\* is started.  An error of this.update or cx.update returns from the task;
\* this.update cannot succeed once the view is released, `this` being weak.
select_timer(r) ==
    /\ task = "Debouncing"
    /\ select_biased = "timer"
    /\ (r = "Ok") => (view = "alive")
    /\ recalcs' = recalcs + 1
    /\ raced' = IF buffer_changes THEN <<old_buffer, new_buffer>> ELSE NoSnapshots
    /\ IF r = "Ok"
       THEN /\ snapshots' = SnapshotPair
            /\ seen' = sent
            /\ computing' = computing + 1
            /\ task' = "Recomputing"
       ELSE /\ task' = "Failed"
            /\ UNCHANGED <<snapshots, seen, computing>>
    /\ UNCHANGED <<old_buffer, new_buffer, events, openvars, diff, buffer_changes,
                   timer, hostvars, sent>>
    /\ since' = 0
    /\ armed_by' = "none"
    /\ UNCHANGED ignored

\* The diff computation finishes in the background and wakes the task.
diff_snapshot ==
    /\ task = "Recomputing"
    /\ computing' = computing - 1
    /\ task' = "Publishing"
    /\ UNCHANGED <<old_buffer, new_buffer, events, openvars, diff, buffer_changes,
                   timer, snapshots, hostvars, sent, seen, recalcs, raced>>
    /\ UNCHANGED <<since, armed_by, ignored>>

\* The publication as it would be with the channel marked seen afterwards and
\* the task back in its wait: a value sent meanwhile is dropped.
set_snapshot_drops_signal(r) ==
    /\ task = "Publishing"
    /\ IF r = "Ok"
       THEN /\ diff' = new_with_base_buffer(snapshots[2], snapshots[1])
            /\ buffer_changes' = Recv(buffer_changes)
            /\ task' = "Idle"
            /\ UNCHANGED timer
       ELSE /\ task' = "Failed"
            /\ UNCHANGED <<diff, buffer_changes, timer>>
    /\ UNCHANGED <<old_buffer, new_buffer, events, openvars, snapshots, computing,
                   hostvars, sent, seen, recalcs, raced, since, armed_by, ignored>>

\* diff.update(|diff| diff.set_snapshot(diff_snapshot, &new_snapshot)): the
\* result is published into the shared BufferDiff, and the while loop polls
\* recv again: a value sent meanwhile starts the next debounce at once.  An
\* error of diff.update returns from the task.
set_snapshot(r) ==
    /\ task = "Publishing"
    /\ IF r = "Ok"
       THEN /\ diff' = new_with_base_buffer(snapshots[2], snapshots[1])
            /\ IF buffer_changes
               THEN /\ buffer_changes' = Recv(buffer_changes)
                    /\ timer' = RECALCULATE_DIFF_DEBOUNCE
                    /\ task' = "Debouncing"
               ELSE /\ task' = "Idle"
                    /\ UNCHANGED <<buffer_changes, timer>>
       ELSE /\ task' = "Failed"
            /\ UNCHANGED <<diff, buffer_changes, timer>>
    /\ UNCHANGED <<old_buffer, new_buffer, events, openvars, snapshots, computing,
                   hostvars, sent, seen, recalcs, raced>>
    /\ IF r = "Ok" /\ buffer_changes
       THEN since' = 0 /\ armed_by' = "set_snapshot"
       ELSE UNCHANGED <<since, armed_by>>
    /\ UNCHANGED ignored

\* ------------------------------------------------------- focus switching

\* switch_to_left_pane: the field and the window focus.
switch_to_left_pane ==
    /\ focused_pane' = "Left"
    /\ window_focus' = "left_editor"

\* switch_to_right_pane: the field and the window focus.
switch_to_right_pane ==
    /\ focused_pane' = "Right"
    /\ window_focus' = "right_editor"

\* toggle_pane with the two match arms exchanged.
toggle_pane_same_side ==
    IF focused_pane = "Left" THEN switch_to_left_pane ELSE switch_to_right_pane

\* toggle_pane: match self.focused_pane { Left => right, Right => left }.
toggle_pane ==
    IF focused_pane = "Left" THEN switch_to_right_pane ELSE switch_to_left_pane

FocusOps == {"switch_to_left_pane", "switch_to_right_pane", "toggle_pane"}

\* A focus operation as it would be if it also sent on buffer_changes_tx.
SwitchPane_notifies(op) ==
    /\ view = "alive"
    /\ CASE op = "switch_to_left_pane" -> switch_to_left_pane
         [] op = "switch_to_right_pane" -> switch_to_right_pane
         [] op = "toggle_pane" -> toggle_pane
    /\ last_call' = [op |-> op, arg |-> "none", target |-> window_focus']
    /\ buffer_changes' = Send(buffer_changes)
    /\ UNCHANGED <<old_buffer, new_buffer, events, openvars, diff, loopvars, sent,
                   since, armed_by, ignored>>

\* The workspace invokes one of the three focus operations on the view.
SwitchPane(op) ==
    /\ view = "alive"
    /\ CASE op = "switch_to_left_pane" -> switch_to_left_pane
         [] op = "switch_to_right_pane" -> switch_to_right_pane
         [] op = "toggle_pane" -> toggle_pane
    /\ last_call' = [op |-> op, arg |-> "none", target |-> window_focus']
    /\ UNCHANGED <<old_buffer, new_buffer, events, openvars, diff, buffer_changes,
                   loopvars, sent>>
    /\ UNCHANGED <<since, armed_by, ignored>>

\* ------------------------------------------------------------- delegation

\* Focusable::focus_handle: the focus handle of the focused editor.
focus_handle ==
    IF focused_pane = "Left" THEN "left_editor" ELSE "right_editor"

\* act_as_type as it would be answering Editor with the left editor always.
act_as_type_left(type_id) ==
    IF type_id = "SideBySideDiffView" THEN "self_handle"
    ELSE IF type_id = "Editor" THEN "left_editor"
    ELSE "None"

\* Item::act_as_type.
act_as_type(type_id) ==
    IF type_id = "SideBySideDiffView" THEN "self_handle"
    ELSE IF type_id = "Editor"
         THEN (IF focused_pane = "Left" THEN "left_editor" ELSE "right_editor")
         ELSE "None"

\* Item::as_searchable.
as_searchable ==
    IF focused_pane = "Left" THEN "left_editor" ELSE "right_editor"

\* Item::breadcrumbs.
breadcrumbs ==
    IF focused_pane = "Left" THEN "left_editor" ELSE "right_editor"

\* Item::set_nav_history: set on the right editor only.
set_nav_history == "right_editor"

\* Item::navigate: the right editor.
navigate == "right_editor"

\* Item::can_save: the right editor, which handles the new buffer.
can_save == "right_editor"

\* save as it would be delegating to the focused editor.
save_focused ==
    IF focused_pane = "Left" THEN "left_editor" ELSE "right_editor"

\* Item::save: the right editor, which manages the new buffer.
save == "right_editor"

ItemOps == {"focus_handle", "act_as_type", "as_searchable", "breadcrumbs",
            "set_nav_history", "navigate", "can_save", "save"}

\* The part of the view an Item/Focusable call reaches.
Delegate(op, type_id) ==
    CASE op = "focus_handle" -> focus_handle
      [] op = "act_as_type" -> act_as_type(type_id)
      [] op = "as_searchable" -> as_searchable
      [] op = "breadcrumbs" -> breadcrumbs
      [] op = "set_nav_history" -> set_nav_history
      [] op = "navigate" -> navigate
      [] op = "can_save" -> can_save
      [] op = "save" -> save

\* The workspace invokes an Item/Focusable method on the view; only
\* act_as_type takes a type id.
ItemCall(op, type_id) ==
    /\ view = "alive"
    /\ (op = "act_as_type") = (type_id # "none")
    /\ last_call' = [op |-> op, arg |-> type_id, target |-> Delegate(op, type_id)]
    /\ UNCHANGED <<old_buffer, new_buffer, events, openvars, diff, buffer_changes,
                   loopvars, focused_pane, window_focus, sent>>
    /\ UNCHANGED <<since, armed_by, ignored>>

\* ---------------------------------------------------------- specification

Next ==
    \/ \E buffer \in Buffers, event \in BufferEvent : EmitBufferEvent(buffer, event)
    \/ \E r \in Results : open(r)
    \/ \E r \in Results : build_buffer_diff(r)
    \/ DropView
    \/ recv
    \/ Tick
    \/ select_recv
    \/ \E r \in Results : select_timer(r)
    \/ diff_snapshot
    \/ \E r \in Results : set_snapshot(r)
    \/ \E op \in FocusOps : SwitchPane(op)
    \/ \E op \in ItemOps, type_id \in TypeIds \cup {"none"} : ItemCall(op, type_id)

Spec == Init /\ [][Next]_vars

\* The executor polls a woken task, timers elapse and a started diff
\* computation finishes; buffer events, workspace calls and the release of the
\* view are up to the environment.
Fairness ==
    /\ WF_vars(recv)
    /\ WF_vars(Tick)
    /\ WF_vars(select_recv)
    /\ WF_vars(\E r \in Results : select_timer(r))
    /\ WF_vars(diff_snapshot)
    /\ WF_vars(\E r \in Results : set_snapshot(r))

FairSpec == Spec /\ Fairness

TypeOK ==
    /\ old_buffer \in 0..MaxEvents
    /\ new_buffer \in 0..MaxEvents
    /\ events \in 0..MaxEvents
    /\ open_task \in {"unspawned", "building", "ok", "err"}
    /\ view \in {"none", "alive", "released"}
    /\ pane_items \subseteq {"diff_view"}
    /\ buffer_changes \in BOOLEAN
    /\ task \in {"unspawned", "Failed", "Cancelled"} \cup Running
    /\ timer \in 0..RECALCULATE_DIFF_DEBOUNCE
    /\ computing \in 0..1
    /\ focused_pane \in FocusedPane
    /\ window_focus \in {"none", "left_editor", "right_editor"}
    /\ sent \in 0..MaxEvents
    /\ seen \in 0..MaxEvents
    /\ recalcs \in Nat
    /\ since \in 0..RECALCULATE_DIFF_DEBOUNCE
    /\ armed_by \in {"none", "recv", "select_biased", "set_snapshot"}
    /\ ignored \in 0..MaxEvents

\* ------------------------------------------------------------- properties

\* A recalculation starts in this step.
RecalculationStarts == recalcs' = recalcs + 1

\* The task publishes into the shared BufferDiff in this step.
Publishes == task = "Publishing" /\ task' \in {"Idle", "Debouncing"}

\* A recalculation is in flight: its snapshots are taken, its result is not
\* yet published.
InFlight == task \in {"Recomputing", "Publishing"}

\* A diff snapshot was computed from buffer versions at least as new as `pair`.
Covers(d, pair) == d.base >= pair[1] /\ d.buffer >= pair[2]

\* C1: a burst of notifications that arrive while the loop is debouncing gets
\* exactly one recalculation once the window closes, so N > 1 edits in a window
\* cause fewer than N recalculations: every recalculation that starts has a
\* notification to answer that no earlier recalculation's snapshots covered.
C1_OneRecalculationPerBurst ==
    [][RecalculationStarts => sent > seen]_vars

\* C2: no update is lost: while the view lives, the k-th recognized event is
\* eventually followed by a recalculation whose snapshots were read after it.
C2_NoUpdateLost ==
    \A k \in 1..MaxEvents :
        (view = "alive" /\ sent >= k) ~> (view # "alive" \/ seen >= k)

\* C3: when the timer and the recv arm are both ready as the loop resumes, the
\* diff the loop then publishes is computed from snapshots no older than the
\* buffers were at that moment.
C3_RaceNotStale ==
    [][(raced # NoSnapshots /\ (Publishes \/ diff' # diff)) => Covers(diff', raced)]_vars

\* C3 witness: a recalculation that started from such a race has published a
\* diff other than the initial one, and the signal left unconsumed has
\* already started the next debounce.
C3_Witness ==
    /\ raced # NoSnapshots
    /\ task = "Debouncing"
    /\ diff = new_with_base_buffer(raced[2], raced[1])
    /\ diff # new_with_base_buffer(buffer_diff[2], buffer_diff[1])

\* C4: at most one diff computation runs at any time; while a recalculation is
\* in flight no other one starts and no debounce is armed, and a notification
\* arriving meanwhile only leaves the channel's value pending.
C4_OneInFlight ==
    [][/\ computing' <= 1
       /\ InFlight => (recalcs' = recalcs /\ computing' <= computing)
       /\ (InFlight /\ task' \in {"Recomputing", "Publishing"}) => timer' = timer
       /\ (InFlight /\ sent' > sent) =>
              (buffer_changes' /\ task' = task /\ snapshots' = snapshots /\ diff' = diff)
      ]_vars

\* C4 witness: a notification arrived while the diff computation was running.
C4_Witness ==
    /\ task = "Recomputing"
    /\ computing = 1
    /\ buffer_changes
    /\ sent > seen

\* C5: a failing step of a recalculation leaves the published diff alone and
\* the loop keeps running: while the view is alive the task is never ended.
C5_LoopSurvivesFailure ==
    [][/\ (task \in Running /\ task' = "Failed") => diff' = diff
       /\ view' = "alive" => task' \in Running
      ]_vars

\* C6: once the view is released no recalculation activity remains (the task
\* is not running, no diff computation runs for it) and the BufferDiff is
\* never written again.
C6_NoActivityAfterRelease ==
    [][/\ view' = "released" => (task' \notin Running /\ computing' = 0)
       /\ view = "released" => diff' = diff
      ]_vars

\* C6 witness: the view was released while a recalculation was in flight: the
\* task is cancelled holding snapshots whose diff was never published.
C6_Witness ==
    /\ view = "released"
    /\ task = "Cancelled"
    /\ snapshots # NoSnapshots
    /\ diff # new_with_base_buffer(snapshots[2], snapshots[1])

\* C7: open is all-or-nothing: a view exists and is in the pane only after the
\* initial diff was computed and open succeeded, and it then has its diff; a
\* failed or unfinished open has neither a view nor a pane item.
C7_OpenAllOrNothing ==
    /\ view # "none" => (open_task = "ok" /\ diff # NoDiff)
    /\ "diff_view" \in pane_items => view = "alive"
    /\ view = "alive" => "diff_view" \in pane_items
    /\ open_task # "ok" => (view = "none" /\ pane_items = {} /\ task = "unspawned")
    /\ open_task = "ok" => diff.base >= buffer_diff[1] /\ diff.buffer >= buffer_diff[2]

\* C7 witness: open failed after build_buffer_diff had read its snapshots.
C7_Witness ==
    /\ open_task = "err"
    /\ buffer_diff # NoSnapshots
    /\ view = "none"

\* C8: save, can_save, navigate and set_nav_history always reach the right
\* editor (the new buffer's), whichever pane is focused.
C8_SaveSideFixed ==
    last_call.op \in {"save", "can_save", "navigate", "set_nav_history"}
        => last_call.target = "right_editor"

\* C8 witness: save after switching to the left pane.
C8_Witness ==
    /\ last_call.op = "save"
    /\ focused_pane = "Left"
    /\ window_focus = "left_editor"

\* C9: focused_pane is Left when the view is built; switch_to_left_pane makes
\* it Left, switch_to_right_pane Right, toggle_pane the other pane, each
\* focusing that pane's editor; nothing else changes it.
C9_FocusedPaneTracksFocus ==
    [][/\ (view = "none" /\ view' = "alive") => focused_pane' = "Left"
       /\ SwitchPane("switch_to_left_pane") =>
              (focused_pane' = "Left" /\ window_focus' = "left_editor")
       /\ SwitchPane("switch_to_right_pane") =>
              (focused_pane' = "Right" /\ window_focus' = "right_editor")
       /\ SwitchPane("toggle_pane") =>
              (focused_pane' # focused_pane /\ window_focus' = EditorOf(focused_pane'))
       /\ (view = "alive" /\ ~(\E op \in FocusOps : SwitchPane(op))) =>
              (focused_pane' = focused_pane /\ window_focus' = window_focus)
      ]_vars

\* C9 witness: toggle_pane has just moved the focus from Right to Left.
C9_Witness ==
    /\ last_call.op = "toggle_pane"
    /\ focused_pane = "Left"
    /\ window_focus = "left_editor"

\* C10: act_as_type gives the view for its own type, the focused editor for
\* Editor and nothing for any other type; as_searchable, focus_handle and
\* breadcrumbs all reach the focused editor.
C10_CapabilityResolution ==
    /\ (last_call.op = "act_as_type" /\ last_call.arg = "SideBySideDiffView")
           => last_call.target = "self_handle"
    /\ (last_call.op = "act_as_type" /\ last_call.arg = "Editor")
           => last_call.target = EditorOf(focused_pane)
    /\ (last_call.op = "act_as_type" /\ last_call.arg \notin {"SideBySideDiffView", "Editor"})
           => last_call.target = "None"
    /\ last_call.op \in {"as_searchable", "focus_handle", "breadcrumbs"}
           => last_call.target = EditorOf(focused_pane)

\* C10 witness: Editor is asked for while the right pane is focused.
C10_Witness ==
    /\ last_call.op = "act_as_type"
    /\ last_call.arg = "Editor"
    /\ focused_pane = "Right"
    /\ last_call.target = "right_editor"

\* The buffers' contents now, as a snapshot pair would read them.
Contents == <<old_buffer, new_buffer>>

\* C11: a signal that arrives while a recalculation is in flight stays pending
\* until the publication; the publication then consumes it and arms the
\* debounce timer at once instead of going Idle; and the only ways out of
\* Debouncing are the timer arm, which starts the next recalculation, and the
\* release of the view.
C11_PendingSignalRedebounces ==
    [][/\ (InFlight /\ buffer_changes /\ ~Publishes /\ task' \in Running) => buffer_changes'
       /\ (Publishes /\ buffer_changes) =>
              (task' = "Debouncing" /\ timer' = RECALCULATE_DIFF_DEBOUNCE /\ ~buffer_changes')
       /\ (task = "Debouncing" /\ task' # "Debouncing") =>
              (RecalculationStarts \/ task' = "Cancelled")
      ]_vars

\* C11 witness: a notification newer than the published snapshots was pending
\* at the publication, which armed the debounce timer itself.
C11_Witness ==
    /\ task = "Debouncing"
    /\ armed_by = "set_snapshot"
    /\ sent > seen
    /\ diff = new_with_base_buffer(snapshots[2], snapshots[1])

\* C12: the loop favours the signal: it never leaves Debouncing for a
\* recalculation while an unconsumed notification is pending.
C12_SignalFavoured ==
    [][(task = "Debouncing" /\ buffer_changes) => task' # "Recomputing"]_vars

C14_SingleSlot ==
    [][/\ (sent' > sent /\ buffer_changes) =>
              (buffer_changes' = buffer_changes /\ task' = task /\ timer' = timer
               /\ snapshots' = snapshots /\ diff' = diff /\ computing' = computing)
       /\ (sent' > sent) => buffer_changes'
       /\ (recv \/ select_recv \/ (Publishes /\ task' = "Debouncing")) => ~buffer_changes'
      ]_vars

\* C14 witness: two sends came before the one receive the task has made, and
\* nothing is left pending.
C14_Witness ==
    /\ sent >= 2
    /\ recalcs = 0
    /\ task = "Debouncing"
    /\ armed_by = "recv"
    /\ ~buffer_changes

\* C15: the task ends only through the release of the view, and then without
\* an error.
C15_EndsOnlyOnRelease ==
    task \in {"Failed", "Cancelled"} => (view = "released" /\ task = "Cancelled")

\* C16: the task never changes focused_pane; the focus operations and the
\* delegated calls leave the diff, the channel and the task's debounce state
\* alone; once the view is built only the task's publication writes the diff.
C16_SeparateWriters ==
    [][/\ (view = "alive" /\ hostvars' # hostvars) =>
                      (diff' = diff /\ buffer_changes' = buffer_changes /\ task' = task
                       /\ timer' = timer /\ snapshots' = snapshots /\ computing' = computing)
       /\ (view = "alive" /\ loopvars' # loopvars) => focused_pane' = focused_pane
       /\ (view = "alive" /\ diff' # diff) => Publishes
      ]_vars

\* C16 witness: the pane was switched and the task has published since the
\* view was built.
C16_Witness ==
    /\ view = "alive"
    /\ focused_pane = "Right"
    /\ last_call.op \in FocusOps
    /\ recalcs >= 1
    /\ diff = new_with_base_buffer(snapshots[2], snapshots[1])
    /\ diff # new_with_base_buffer(buffer_diff[2], buffer_diff[1])

\* C17: with the view alive, Edited, LanguageChanged and Reparsed on either
\* buffer send on the channel; any other event leaves the channel and the
\* task as they were; and nothing but those three kinds makes a notification
\* pending.
C17_RecognizedEvents ==
    [][/\ \A buffer \in Buffers, event \in BufferEvent :
              (view = "alive" /\ EmitBufferEvent(buffer, event)) =>
                  IF event \in {"Edited", "LanguageChanged", "Reparsed"}
                  THEN buffer_changes' /\ sent' = sent + 1
                  ELSE /\ buffer_changes' = buffer_changes
                       /\ sent' = sent
                       /\ task' = task /\ timer' = timer /\ recalcs' = recalcs
       /\ (~buffer_changes /\ buffer_changes') =>
              \E buffer \in Buffers, event \in {"Edited", "LanguageChanged", "Reparsed"} :
                  EmitBufferEvent(buffer, event)
      ]_vars

\* C17 witness: the subscription ignored an event, and the task still waits
\* with nothing pending.
C17_Witness ==
    /\ view = "alive"
    /\ ignored >= 1
    /\ sent = 0
    /\ task = "Idle"
    /\ ~buffer_changes

\* C18: both snapshots of a diff computation are read at one point: the pair
\* the task or build_buffer_diff takes is the contents of both buffers in that
\* one step, no edit falls in that step, and what is published is the diff of
\* such a pair.
C18_SnapshotsTakenTogether ==
    [][/\ (snapshots' # snapshots /\ snapshots' # NoSnapshots) =>
              (snapshots' = Contents /\ old_buffer' = old_buffer /\ new_buffer' = new_buffer)
       /\ (buffer_diff' # buffer_diff) =>
              (buffer_diff' = Contents /\ old_buffer' = old_buffer /\ new_buffer' = new_buffer)
       /\ Publishes => diff' = new_with_base_buffer(snapshots[2], snapshots[1])
       /\ (view = "none" /\ view' = "alive") =>
              diff' = new_with_base_buffer(buffer_diff[2], buffer_diff[1])
      ]_vars

\* C18 witness: a diff of snapshots in which both buffers had been edited was
\* published.
C18_Witness ==
    /\ recalcs >= 1
    /\ snapshots[1] >= 1
    /\ snapshots[2] >= 1
    /\ diff = new_with_base_buffer(snapshots[2], snapshots[1])

\* C19: if the view stays alive and no step of a recalculation fails, then
\* (the events of a run being finite) the task ends up Idle with nothing
\* pending and the published diff is the diff of the buffers' final contents.
C19_Convergence ==
    <>[](view = "alive" /\ task # "Failed") =>
        <>[](/\ task = "Idle"
             /\ ~buffer_changes
             /\ diff = new_with_base_buffer(new_buffer, old_buffer))

\* C20: an edit made while open computes the initial diff is reflected without
\* a further edit: a view that has been notified of nothing, with its task
\* waiting and nothing pending, shows the diff of the buffers' contents.
C20_ConstructionEditsReflected ==
    (view = "alive" /\ sent = 0 /\ task = "Idle" /\ ~buffer_changes)
        => Covers(diff, Contents)

====
